---------------------------- MODULE Spec2Model ----------------------------
(***************************************************************************)
(* swim_delete_images.py: filter SWIM images of a Catalyst Center and      *)
(* delete them one at a time (optional golden-tag removal, fallback delete *)
(* paths, asynchronous task polling).                                      *)
(*                                                                         *)
(* Values that cross the HTTP/JSON boundary are tagged records [t, v] so   *)
(* that Python's truthiness, `or`, dict.get and the exceptions they raise  *)
(* are computed as the interpreter computes them.  Text is a sequence of   *)
(* one-character strings, so that lower(), strip() and `in` do real work.  *)
(***************************************************************************)
EXTENDS Integers, Sequences, FiniteSets, TLC

(* ------------------------------ bounds -------------------------------- *)

\* longest inventory list_images returns
MaxImages == 2
\* largest value given to --limit
MaxLimit == 2
\* get_task's timeout, counted in poll intervals (the default is 300 s / 2.5 s)
DefaultTimeout == 2
\* longest time one status query takes, in poll intervals
MaxLatency == 1

(* --------------------------- JSON / Python ---------------------------- *)

Null == [t |-> "null"]
B(b) == [t |-> "bool", v |-> b]
N(n) == [t |-> "int", v |-> n]
S(s) == [t |-> "str", v |-> s]
Obj(f) == [t |-> "obj", v |-> f]
Arr == [t |-> "arr", v |-> <<>>]
\* a body that is not JSON at all: r.json() raises on it
NotJson == [t |-> "notjson"]
EmptyObj == [t |-> "obj", v |-> [k \in {} |-> Null]]
\* Python's None in a local variable (JSON null is Null)
None == [t |-> "none"]

\* bool(x)
Truthy(x) ==
  CASE x.t = "null" -> FALSE
    [] x.t = "bool" -> x.v
    [] x.t = "int"  -> x.v # 0
    [] x.t = "str"  -> x.v # <<>>
    [] x.t = "obj"  -> DOMAIN x.v # {}
    [] x.t = "arr"  -> x.v # <<>>
    [] OTHER        -> FALSE

\* a or b
Or(a, b) == IF Truthy(a) THEN a ELSE b

\* d.get(k) on a dict
Get(d, k) == IF k \in DOMAIN d.v THEN d.v[k] ELSE Null

\* str.lower() on one character
LowerChar(c) ==
  CASE c = "A" -> "a" [] c = "B" -> "b" [] c = "C" -> "c" [] c = "D" -> "d"
    [] c = "E" -> "e" [] c = "F" -> "f" [] c = "G" -> "g" [] c = "H" -> "h"
    [] c = "I" -> "i" [] c = "J" -> "j" [] c = "K" -> "k" [] c = "L" -> "l"
    [] c = "M" -> "m" [] c = "N" -> "n" [] c = "O" -> "o" [] c = "P" -> "p"
    [] c = "Q" -> "q" [] c = "R" -> "r" [] c = "S" -> "s" [] c = "T" -> "t"
    [] c = "U" -> "u" [] c = "V" -> "v" [] c = "W" -> "w" [] c = "X" -> "x"
    [] c = "Y" -> "y" [] c = "Z" -> "z"
    [] OTHER -> c

\* str.lower()
Lower(s) == [k \in 1..Len(s) |-> LowerChar(s[k])]

\* str.strip()
RECURSIVE LStrip(_)
LStrip(s) == IF s # <<>> /\ Head(s) = " " THEN LStrip(Tail(s)) ELSE s
RECURSIVE RStrip(_)
RStrip(s) ==
  IF s # <<>> /\ s[Len(s)] = " " THEN RStrip(SubSeq(s, 1, Len(s) - 1)) ELSE s
Strip(s) == RStrip(LStrip(s))

\* k in s, for two strings
Contains(s, k) ==
  \E off \in 0..(Len(s) - Len(k)) : SubSeq(s, off + 1, off + Len(k)) = k

\* str(x)
Str(x) ==
  CASE x.t = "str"  -> x.v
    [] x.t = "bool" -> IF x.v THEN <<"T","r","u","e">> ELSE <<"F","a","l","s","e">>
    [] OTHER        -> <<"?">>

Min(a, b) == IF a < b THEN a ELSE b

\* a literal message of the program
Msg(m) == [t |-> "msg", v |-> m]
\* an exception leaving the function
Raise(e) == [t |-> "raise", v |-> e]

(* ----------------------------- responses ------------------------------ *)

\* what session.get / session.delete hands back: a status and a body; a
\* call that fails below HTTP (requests.ConnectionError) has no response
Resp(st, body) == [conn |-> TRUE, status |-> st, body |-> body]
ConnError == [conn |-> FALSE]

\* (body.get("response") or {}).get("taskId") on body = r.json()
TaskIdOf(body) ==
  IF body.t = "notjson" THEN Raise("JSONDecodeError")
  ELSE IF body.t # "obj" THEN Raise("AttributeError")
  ELSE LET resp == Or(Get(body, "response"), EmptyObj)
       IN IF resp.t # "obj" THEN Raise("AttributeError")
          ELSE Get(resp, "taskId")

\* the completion keywords of get_task
Keywords ==
  { <<"c","o","m","p","l","e","t","e","d">>, <<"s","u","c","c","e","s","s">>,
    <<"d","o","n","e">>, <<"d","e","l","e","t","i","o","n">> }

\* progress and any(k in str(progress).lower() for k in (...))
IsCompletion(progress) ==
  Truthy(progress) /\ \E k \in Keywords : Contains(Lower(Str(progress)), k)

\* is_error or failure
IsFailure(data) ==
  Truthy(Get(data, "isError")) \/ Truthy(Get(data, "failureReason"))

(* ------------------------------ get_task ------------------------------ *)

\* data = r.json().get("response") or r.json(), for a body that is an object
task_data(body) == Or(Get(body, "response"), body)

Ret(val) == [k |-> "return", val |-> val]
Exc(e) == [k |-> "raise", exc |-> e]
Sleep == [k |-> "sleep"]

\* get_task with the keyword test moved above the error test
get_task_iter_keyword_first(r, now, tmo) ==
  IF ~r.conn THEN Exc("ConnectionError")
  ELSE IF r.status # 200
    THEN Ret([error |-> [t |-> "msg", v |-> "task query failed", status |-> r.status],
              raw |-> r.body])
  ELSE IF r.body.t = "notjson" THEN Exc("JSONDecodeError")
  ELSE IF r.body.t # "obj" THEN Exc("AttributeError")
  ELSE LET data == task_data(r.body)
           d == Or(data, EmptyObj)
       IN IF d.t # "obj" THEN Exc("AttributeError")
          ELSE IF IsCompletion(Get(d, "progress"))
            THEN Ret([ok |-> TRUE, data |-> data])
          ELSE IF IsFailure(d)
            THEN Ret([error |-> Or(Get(d, "failureReason"), Msg("task reported error")),
                      raw |-> data])
          ELSE IF now > tmo
            THEN Ret([error |-> Msg("task timeout"), raw |-> data])
          ELSE Sleep

\* get_task that takes a failed status query for "not finished yet"
get_task_iter_retry_query(r, now, tmo) ==
  IF ~r.conn THEN Exc("ConnectionError")
  ELSE IF r.status # 200
    THEN IF now > tmo
           THEN Ret([error |-> Msg("task timeout"), raw |-> r.body])
           ELSE Sleep
  ELSE IF r.body.t = "notjson" THEN Exc("JSONDecodeError")
  ELSE IF r.body.t # "obj" THEN Exc("AttributeError")
  ELSE LET data == task_data(r.body)
           d == Or(data, EmptyObj)
       IN IF d.t # "obj" THEN Exc("AttributeError")
          ELSE IF IsFailure(d)
            THEN Ret([error |-> Or(Get(d, "failureReason"), Msg("task reported error")),
                      raw |-> data])
          ELSE IF IsCompletion(Get(d, "progress"))
            THEN Ret([ok |-> TRUE, data |-> data])
          ELSE IF now > tmo
            THEN Ret([error |-> Msg("task timeout"), raw |-> data])
          ELSE Sleep

\* get_task without the clock test
get_task_iter_no_timeout(r, now, tmo) ==
  IF ~r.conn THEN Exc("ConnectionError")
  ELSE IF r.status # 200
    THEN Ret([error |-> [t |-> "msg", v |-> "task query failed", status |-> r.status],
              raw |-> r.body])
  ELSE IF r.body.t = "notjson" THEN Exc("JSONDecodeError")
  ELSE IF r.body.t # "obj" THEN Exc("AttributeError")
  ELSE LET data == task_data(r.body)
           d == Or(data, EmptyObj)
       IN IF d.t # "obj" THEN Exc("AttributeError")
          ELSE IF IsFailure(d)
            THEN Ret([error |-> Or(Get(d, "failureReason"), Msg("task reported error")),
                      raw |-> data])
          ELSE IF IsCompletion(Get(d, "progress"))
            THEN Ret([ok |-> TRUE, data |-> data])
          ELSE Sleep

\* get_task that reads the clock before it classifies the answer
get_task_iter_clock_first(r, now, tmo) ==
  IF ~r.conn THEN Exc("ConnectionError")
  ELSE IF r.status # 200
    THEN Ret([error |-> [t |-> "msg", v |-> "task query failed", status |-> r.status],
              raw |-> r.body])
  ELSE IF r.body.t = "notjson" THEN Exc("JSONDecodeError")
  ELSE IF r.body.t # "obj" THEN Exc("AttributeError")
  ELSE LET data == task_data(r.body)
           d == Or(data, EmptyObj)
       IN IF d.t # "obj" THEN Exc("AttributeError")
          ELSE IF now > tmo
            THEN Ret([error |-> Msg("task timeout"), raw |-> data])
          ELSE IF IsFailure(d)
            THEN Ret([error |-> Or(Get(d, "failureReason"), Msg("task reported error")),
                      raw |-> data])
          ELSE IF IsCompletion(Get(d, "progress"))
            THEN Ret([ok |-> TRUE, data |-> data])
          ELSE Sleep

\* one pass of the `while True` of get_task on the response r of the status
\* query; now is time.time() - start when the clock is read, tmo the timeout
get_task_iter(r, now, tmo) ==
  IF ~r.conn THEN Exc("ConnectionError")
  ELSE IF r.status # 200
    THEN Ret([error |-> [t |-> "msg", v |-> "task query failed", status |-> r.status],
              raw |-> r.body])
  ELSE IF r.body.t = "notjson" THEN Exc("JSONDecodeError")
  ELSE IF r.body.t # "obj" THEN Exc("AttributeError")
  ELSE LET data == task_data(r.body)
           d == Or(data, EmptyObj)
       IN IF d.t # "obj" THEN Exc("AttributeError")
          ELSE IF IsFailure(d)
            THEN Ret([error |-> Or(Get(d, "failureReason"), Msg("task reported error")),
                      raw |-> data])
          ELSE IF IsCompletion(Get(d, "progress"))
            THEN Ret([ok |-> TRUE, data |-> data])
          ELSE IF now > tmo
            THEN Ret([error |-> Msg("task timeout"), raw |-> data])
          ELSE Sleep

(* ---------------------------- remove_golden --------------------------- *)

\* remove_golden that answers a rejected request with a task id to poll
remove_golden_polls_rejected(r) ==
  IF ~r.conn THEN Exc("ConnectionError")
  ELSE IF r.status \in {200, 202}
    THEN LET tid == TaskIdOf(r.body)
         IN IF tid.t = "raise" THEN Exc(tid.v) ELSE Ret(tid)
  ELSE IF r.status = 204 THEN Ret(Null)
  ELSE Ret(S(<<"t","0">>))

\* remove_golden on the response r of its DELETE: the task id, None, or an
\* exception
remove_golden(r) ==
  IF ~r.conn THEN Exc("ConnectionError")
  ELSE IF r.status \in {200, 202}
    THEN LET tid == TaskIdOf(r.body)
         IN IF tid.t = "raise" THEN Exc(tid.v) ELSE Ret(tid)
  ELSE IF r.status = 204 THEN Ret(Null)
  ELSE Ret(Null)

(* ----------------------------- delete_image --------------------------- *)

\* the candidate endpoints, in the order delete_image tries them
Paths ==
  << "/dna/intent/api/v1/image/importation/{image_id}",
     "/dna/intent/api/v1/image/{image_id}" >>

\* delete_image that keeps the last attempt only
delete_image_iter_last_only(r, idx, tried) ==
  IF ~r.conn THEN [k |-> "raise", exc |-> "ConnectionError", tried |-> tried]
  ELSE LET tried2 == << <<Paths[idx], r.status>> >>
       IN IF r.status \in {200, 202}
            THEN LET tid == TaskIdOf(r.body)
                 IN IF tid.t = "raise"
                      THEN [k |-> "raise", exc |-> tid.v, tried |-> tried2]
                      ELSE [k |-> "return", tried |-> tried2,
                            val |-> [ok |-> TRUE, taskId |-> tid, path |-> Paths[idx]]]
          ELSE IF r.status = 204
            THEN [k |-> "return", tried |-> tried2,
                  val |-> [ok |-> TRUE, taskId |-> Null, path |-> Paths[idx]]]
          ELSE IF idx < Len(Paths)
            THEN [k |-> "next", tried |-> tried2]
          ELSE [k |-> "return", tried |-> tried2,
                val |-> [ok |-> FALSE, tried |-> tried2, last_text |-> r.body]]

\* one pass of the `for path` of delete_image: the idx-th path answered r
\* and tried holds the earlier attempts
delete_image_iter(r, idx, tried) ==
  IF ~r.conn THEN [k |-> "raise", exc |-> "ConnectionError", tried |-> tried]
  ELSE LET tried2 == Append(tried, <<Paths[idx], r.status>>)
       IN IF r.status \in {200, 202}
            THEN LET tid == TaskIdOf(r.body)
                 IN IF tid.t = "raise"
                      THEN [k |-> "raise", exc |-> tid.v, tried |-> tried2]
                      ELSE [k |-> "return", tried |-> tried2,
                            val |-> [ok |-> TRUE, taskId |-> tid, path |-> Paths[idx]]]
          ELSE IF r.status = 204
            THEN [k |-> "return", tried |-> tried2,
                  val |-> [ok |-> TRUE, taskId |-> Null, path |-> Paths[idx]]]
          ELSE IF idx < Len(Paths)
            THEN [k |-> "next", tried |-> tried2]
          ELSE [k |-> "return", tried |-> tried2,
                val |-> [ok |-> FALSE, tried |-> tried2, last_text |-> r.body]]

(* ------------------------------- confirm ------------------------------ *)

\* the input stream is closed: input() raises EOFError
EOF == [t |-> "eof"]

\* confirm that takes the bare Enter key for a yes
confirm_default_yes(ans) ==
  IF ans.t = "eof" THEN FALSE
  ELSE Lower(Strip(ans.v)) \in { <<>>, <<"y">>, <<"y","e","s">> }

\* confirm(prompt) when input() yields ans
confirm(ans) ==
  IF ans.t = "eof" THEN FALSE
  ELSE Lower(Strip(ans.v)) \in { <<"y">>, <<"y","e","s">> }

(* ------------------------- filtering and rows ------------------------- *)

\* img.get(a) or img.get(b)
Get2(img, a, b) == Or(Get(img, a), Get(img, b))
\* img.get(a) or img.get(b) or img.get(c)
Get3(img, a, b, c) == Or(Or(Get(img, a), Get(img, b)), Get(img, c))

\* bool(img.get("isTaggedGolden") or img.get("isGolden") or img.get("golden"))
is_golden(img) == Truthy(Get3(img, "isTaggedGolden", "isGolden", "golden"))

\* main.img_row
img_row(img) ==
  [ imageUuid |-> Get3(img, "imageUuid", "id", "imageId"),
    name      |-> Get2(img, "name", "imageName"),
    version   |-> Get2(img, "version", "softwareVersion"),
    family    |-> Get2(img, "family", "familyName"),
    type      |-> Get2(img, "imageType", "type"),
    golden    |-> is_golden(img),
    usedCount |-> Or(Get3(img, "usedDevicesCount", "usingDeviceCount", "deviceCount"), N(0)) ]

\* (img.get(a) or img.get(b) or "").lower()
LowField(img, a, b) == Lower(Str(Or(Get2(img, a, b), S(<<>>))))

(* ----------------------------- timestamps ----------------------------- *)

Digits ==
  "0" :> 0 @@ "1" :> 1 @@ "2" :> 2 @@ "3" :> 3 @@ "4" :> 4 @@
  "5" :> 5 @@ "6" :> 6 @@ "7" :> 7 @@ "8" :> 8 @@ "9" :> 9
AllDigits(s) == s # <<>> /\ \A k \in DOMAIN s : s[k] \in DOMAIN Digits

\* the number a text of digits denotes
RECURSIVE Num(_)
Num(s) ==
  IF s = <<>> THEN 0 ELSE Num(SubSeq(s, 1, Len(s) - 1)) * 10 + Digits[s[Len(s)]]

\* str.replace("Z", "+00:00")
RECURSIVE ReplaceZ(_)
ReplaceZ(s) ==
  IF s = <<>> THEN <<>>
  ELSE (IF Head(s) = "Z" THEN <<"+","0","0",":","0","0">> ELSE <<Head(s)>>)
         \o ReplaceZ(Tail(s))

IsLeap(y) == y % 4 = 0 /\ (y % 100 # 0 \/ y % 400 = 0)
DaysIn(y, m) ==
  IF m = 2 THEN (IF IsLeap(y) THEN 29 ELSE 28)
  ELSE IF m \in {4, 6, 9, 11} THEN 30 ELSE 31

\* days from 1970-01-01 to the civil date y-m-d (proleptic Gregorian), the
\* arithmetic datetime subtraction rests on
DaysFromCivil(y, m, d) ==
  LET yy  == IF m <= 2 THEN y - 1 ELSE y
      era == yy \div 400
      yoe == yy - era * 400
      mp  == IF m > 2 THEN m - 3 ELSE m + 9
      doy == (153 * mp + 2) \div 5 + d - 1
      doe == yoe * 365 + yoe \div 4 - yoe \div 100 + doy
  IN era * 146097 + doe - 719468

\* a datetime: wall is its clock reading in seconds from 1970-01-01T00:00:00,
\* off its UTC offset N(seconds), None for a naive datetime
DateTime(wall, off) == [t |-> "datetime", wall |-> wall, off |-> off]

\* datetime.fromisoformat(s) for the shapes YYYY-MM-DD and
\* YYYY-MM-DD?HH:MM:SS with an optional +HH:MM / -HH:MM; None stands for
\* the ValueError every other text of the inventories drawn here raises
fromisoformat(s) ==
  LET n == Len(s)
      two(a) == SubSeq(s, a, a + 1)
      dateOk ==
        /\ n >= 10 /\ AllDigits(SubSeq(s, 1, 4)) /\ s[5] = "-" /\ AllDigits(two(6))
        /\ s[8] = "-" /\ AllDigits(two(9))
        /\ Num(SubSeq(s, 1, 4)) >= 1
        /\ Num(two(6)) \in 1..12
        /\ Num(two(9)) \in 1..DaysIn(Num(SubSeq(s, 1, 4)), Num(two(6)))
      timeOk ==
        /\ n >= 19 /\ AllDigits(two(12)) /\ s[14] = ":" /\ AllDigits(two(15))
        /\ s[17] = ":" /\ AllDigits(two(18))
        /\ Num(two(12)) < 24 /\ Num(two(15)) < 60 /\ Num(two(18)) < 60
      offOk ==
        /\ n = 25 /\ s[20] \in {"+", "-"} /\ AllDigits(two(21)) /\ s[23] = ":"
        /\ AllDigits(two(24)) /\ Num(two(21)) < 24 /\ Num(two(24)) < 60
      day == DaysFromCivil(Num(SubSeq(s, 1, 4)), Num(two(6)), Num(two(9))) * 86400
      tod == Num(two(12)) * 3600 + Num(two(15)) * 60 + Num(two(18))
      off == (IF s[20] = "-" THEN -1 ELSE 1) * (Num(two(21)) * 3600 + Num(two(24)) * 60)
  IN IF ~dateOk THEN None
     ELSE IF n = 10 THEN DateTime(day, None)
     ELSE IF ~timeOk THEN None
     ELSE IF n = 19 THEN DateTime(day + tod, None)
     ELSE IF offOk THEN DateTime(day + tod, N(off))
     ELSE None

\* an integer too wide for the 32 bits of the checker: k stands for k * 1000
Thousands(k) == [t |-> "int", v |-> k, x1000 |-> TRUE]

\* int(created) / 1000 if int(created) > 10**10 else int(created), in
\* seconds; 10**10 is 10**7 thousands
epoch_seconds(x) ==
  IF x.t = "bool" THEN (IF x.v THEN 1 ELSE 0)
  ELSE IF "x1000" \in DOMAIN x
    THEN (IF x.v > 10000000 THEN x.v ELSE x.v * 1000)
  ELSE x.v

\* created_dt of _match: the first truthy of the three timestamp keys, read
\* as an epoch when it is a number and as ISO text otherwise, with the zone
\* dropped by .replace(tzinfo=None); None when absent or not readable
created_dt(img) ==
  LET created == Get3(img, "createdTime", "importedDate", "lastUpdateTime")
  IN IF ~Truthy(created) THEN None
     ELSE IF created.t \in {"int", "bool"}
       THEN DateTime(epoch_seconds(created), None)
     ELSE LET d == fromisoformat(ReplaceZ(Str(created)))
          IN IF d = None THEN None ELSE DateTime(d.wall, None)

\* now = dt.datetime.utcnow(), taken once by compile_filters
NowText == <<"2","0","2","4","-","0","1","-","1","0","T","1","2",":","0","0",":","0","0">>
Now == fromisoformat(NowText).wall

\* older_than and created_dt and (now - created_dt) < older_than
too_young(flt, img) ==
  /\ Truthy(flt.older_than_days)
  /\ created_dt(img) # None
  /\ Now - created_dt(img).wall < flt.older_than_days.v * 86400

\* int(used): the value, or None for the exception the try swallows
to_int(x) ==
  CASE x.t = "int"  -> x
    [] x.t = "bool" -> N(IF x.v THEN 1 ELSE 0)
    [] x.t = "str" /\ AllDigits(Strip(x.v)) -> N(Num(Strip(x.v)))
    [] OTHER -> None

\* _match that tests the usage count whether or not --unused-only is given
match_unused_always(flt, img) ==
  /\ ~(Truthy(flt.family) /\ ~Contains(LowField(img, "family", "familyName"), Lower(flt.family.v)))
  /\ ~(Truthy(flt.name_contains) /\ ~Contains(LowField(img, "name", "imageName"), Lower(flt.name_contains.v)))
  /\ ~(Truthy(flt.version) /\ Lower(flt.version.v) # LowField(img, "version", "softwareVersion"))
  /\ ~(Truthy(flt.type) /\ ~Contains(LowField(img, "imageType", "type"), Lower(flt.type.v)))
  /\ ~(flt.golden.t # "null" /\ is_golden(img) # flt.golden.v)
  /\ ~too_young(flt, img)
  /\ ~(LET used == to_int(Or(Get3(img, "usedDevicesCount", "usingDeviceCount", "deviceCount"), N(0)))
       IN used # None /\ used.v > 0)

\* compile_filters._match for the options this model sets (family, name
\* substring, version, type, golden, age, unused-only; the two regex options
\* are left unset); an option that is None or empty never excludes.  Text
\* fields of the inventories drawn here are strings or absent.
match(flt, img) ==
  /\ ~(Truthy(flt.family) /\ ~Contains(LowField(img, "family", "familyName"), Lower(flt.family.v)))
  /\ ~(Truthy(flt.name_contains) /\ ~Contains(LowField(img, "name", "imageName"), Lower(flt.name_contains.v)))
  /\ ~(Truthy(flt.version) /\ Lower(flt.version.v) # LowField(img, "version", "softwareVersion"))
  /\ ~(Truthy(flt.type) /\ ~Contains(LowField(img, "imageType", "type"), Lower(flt.type.v)))
  /\ ~(flt.golden.t # "null" /\ is_golden(img) # flt.golden.v)
  /\ ~too_young(flt, img)
  /\ ~(flt.unused_only /\
        LET used == to_int(Or(Get3(img, "usedDevicesCount", "usingDeviceCount", "deviceCount"), N(0)))
        IN used # None /\ used.v > 0)

\* [img for img in images if match_fn(img)]
RECURSIVE select(_, _)
select(flt, images) ==
  IF images = <<>> THEN <<>>
  ELSE IF match(flt, Head(images))
    THEN <<Head(images)>> \o select(flt, Tail(images))
    ELSE select(flt, Tail(images))

\* [img_row(i) for i in selected]
rows(selected) == [k \in 1..Len(selected) |-> img_row(selected[k])]

\* args.limit if args.limit and args.limit > 0 else len(table)
effective_limit(lim, n) == IF lim # 0 /\ lim > 0 THEN lim ELSE n

(* ------------------------------- inputs ------------------------------- *)

Cat9k == <<"c","a","t","9","k">>

\* raw inventory entries, keyed the way different controller releases key them
ImgGolden ==
  Obj("imageUuid" :> S(<<"g","1">>) @@ "family" :> S(<<"C","A","T","9","K">>)
      @@ "isTaggedGolden" :> B(TRUE))
ImgPlain ==
  Obj("id" :> S(<<"p","1">>) @@ "familyName" :> S(Cat9k) @@ "isGolden" :> B(FALSE))
ImgNoId ==
  Obj("name" :> S(<<"x">>) @@ "family" :> S(<<"i","s","r">>))
RawImages == {ImgGolden, ImgPlain, ImgNoId}

Range(q) == {q[k] : k \in DOMAIN q}

\* the lists of at most n different elements of A
RECURSIVE SeqsUpTo(_, _)
SeqsUpTo(A, n) ==
  IF n = 0 THEN {<<>>}
  ELSE LET shorter == SeqsUpTo(A, n - 1)
       IN shorter \cup
            { Append(q, a) : q \in {x \in shorter : Len(x) = n - 1}, a \in A }

\* an inventory lists an image once
Inventories ==
  { q \in SeqsUpTo(RawImages, MaxImages) : Cardinality(Range(q)) = Len(q) }

\* the option values main hands to compile_filters
NoFilter ==
  [ family |-> Null, name_contains |-> Null, version |-> Null, type |-> Null,
    golden |-> Null, older_than_days |-> Null, unused_only |-> FALSE ]
Filters ==
  { NoFilter,
    [NoFilter EXCEPT !.family = S(<<"C","a","t","9","k">>), !.golden = B(FALSE)],
    [NoFilter EXCEPT !.golden = B(TRUE)] }

\* the golden-tag scope options: each given or not
FullScope ==
  [ site_id |-> S(<<"-","1">>), device_family_identifier |-> S(<<"7">>),
    device_role |-> S(<<"A","L","L">>) ]
Scopes ==
  { FullScope,
    [FullScope EXCEPT !.site_id = Null],
    [FullScope EXCEPT !.device_role = S(<<>>)],
    [site_id |-> Null, device_family_identifier |-> Null, device_role |-> Null] }

Limits == 0..MaxLimit

\* what the operator may type at the prompt
Answers ==
  { EOF, S(<<"y">>), S(<<" ","Y","E","S"," ">>), S(<<>>), S(<<"n">>),
    S(<<"y","e","a","h">>) }

TaskBody == Obj("response" :> Obj("taskId" :> S(<<"t","1">>)))
NoTaskBody == Obj("response" :> Obj("url" :> S(<<"u">>)))
ErrBody == Obj("message" :> S(<<"i","n"," ","u","s","e">>))
NotFoundBody == S(<<"n","o","t"," ","f","o","u","n","d">>)

\* answers of the controller to a DELETE (tag removal or image delete)
WriteResps ==
  {ConnError}
    \cup {Resp(200, b) : b \in {NotJson, Arr, TaskBody, NoTaskBody}}
    \cup {Resp(202, TaskBody)}
    \cup {Resp(204, NotJson)}
    \cup {Resp(409, ErrBody), Resp(404, NotFoundBody)}

Running == S(<<"r","u","n","n","i","n","g">>)
Completed == S(<<"C","O","M","P","L","E","T","E","D">>)
Boom == S(<<"b","o","o","m">>)

\* answers of the controller to a task status query, one of each kind
TaskResps ==
  { ConnError, Resp(500, NotJson), Resp(200, NotJson), Resp(200, Arr),
    Resp(200, Obj("response" :> Obj("progress" :> Running))),
    Resp(200, Obj("response" :> Obj("progress" :> Completed))),
    Resp(200, Obj("response" :> Obj("progress" :> Completed @@ "failureReason" :> Boom))),
    Resp(200, Obj("progress" :> Running @@ "isError" :> B(TRUE))) }

\* a key the object does not carry
Absent == [t |-> "absent"]
Field(k, v) == IF v = Absent THEN [x \in {} |-> Null] ELSE k :> v

Progresses ==
  { Absent, Null, S(<<>>), Running, Completed,
    S(<<"S","u","c","c","e","s","s">>), S(<<"n","o","t"," ","d","o","n","e">>),
    S(<<"I","m","a","g","e"," ","D","e","l","e","t","i","o","n">>) }
ErrorFlags == {Absent, B(FALSE), B(TRUE)}
FailureReasons == {Absent, S(<<>>), Boom}

\* a task object, bare or inside the "response" envelope
TaskObj(wrapped, p, e, f) ==
  LET o == Obj(Field("progress", p) @@ Field("isError", e) @@ Field("failureReason", f))
  IN IF wrapped THEN Obj("response" :> o) ELSE o

\* the answers to a task status query, of every kind get_task tells apart
AllTaskResps ==
  {ConnError}
    \cup {Resp(st, b) : st \in {404, 500}, b \in {NotJson, TaskObj(TRUE, Completed, Absent, Absent)}}
    \cup {Resp(200, b) : b \in {NotJson, Arr, Obj("response" :> S(<<"o","k">>))}}
    \cup {Resp(200, TaskObj(w, p, e, f)) :
            w \in BOOLEAN, p \in Progresses, e \in ErrorFlags, f \in FailureReasons}

\* the three keys _match reads the import time from
TimeKeys == {"createdTime", "importedDate", "lastUpdateTime"}

\* import times as controllers report them: ISO text (UTC "Z", with an
\* offset, naive, date only), epoch seconds and milliseconds, text that is
\* no timestamp, a day that does not exist, the empty text and zero
TimeValues ==
  { S(<<"2","0","2","4","-","0","1","-","0","9","T","1","1",":","0","0",":","0","0","Z">>),
    S(<<"2","0","2","4","-","0","1","-","0","9","T","1","3",":","0","0",":","0","0","Z">>),
    S(<<"2","0","2","4","-","0","1","-","0","9","T","1","6",":","0","0",":","0","0","+","0","5",":","0","0">>),
    S(<<"2","0","2","4","-","0","1","-","0","9","T","0","8",":","0","0",":","0","0","-","0","5",":","0","0">>),
    S(<<"2","0","2","4","-","0","1","-","1","0","T","0","0",":","0","0",":","0","0">>),
    S(<<"2","0","2","4","-","0","1","-","0","8">>),
    S(<<"2","0","2","4","-","0","2","-","3","0","T","0","0",":","0","0",":","0","0","Z">>),
    S(<<"n","/","a">>), S(<<>>), N(0),
    N(1704805200), Thousands(1704798000) }

\* an image with an id and one import time
TimeRecords ==
  { Obj("id" :> S(<<"p","1">>) @@ k :> v) : k \in TimeKeys, v \in TimeValues }

\* images whose first alias of a field is falsy or unusual
AliasRecords ==
  { Obj("id" :> S(<<"p","2">>) @@ "usedDevicesCount" :> N(0) @@ "deviceCount" :> N(5)),
    Obj("id" :> S(<<"p","2">>) @@ "usingDeviceCount" :> N(2)),
    Obj("id" :> S(<<"p","2">>) @@ "usedDevicesCount" :> S(<<"n","/","a">>)),
    Obj("id" :> S(<<"p","2">>) @@ "usedDevicesCount" :> S(<<"3">>)),
    Obj("id" :> S(<<"p","2">>) @@ "isTaggedGolden" :> B(FALSE) @@ "isGolden" :> B(TRUE)),
    Obj("id" :> S(<<"p","2">>) @@ "family" :> S(<<>>) @@ "familyName" :> S(Cat9k)),
    Obj("imageUuid" :> S(<<>>) @@ "id" :> S(<<"p","2">>) @@ "name" :> S(<<"a">>)
        @@ "imageName" :> S(<<"b">>)),
    Obj("id" :> S(<<"p","2">>) @@ "createdTime" :> N(0)
        @@ "importedDate" :> S(<<"2","0","2","4","-","0","1","-","0","9","T","1","3",":","0","0",":","0","0","Z">>)) }

\* the inventories of one image, of every kind the matcher tells apart
SingleRecords == { <<img>> : img \in RawImages \cup TimeRecords \cup AliasRecords }

\* the filters of one predicate each, and the Filters of the full run
AllFilters ==
  Filters
    \cup { [NoFilter EXCEPT !.older_than_days = N(n)] : n \in 0..2 }
    \cup { [NoFilter EXCEPT !.golden = B(FALSE)],
           [NoFilter EXCEPT !.unused_only = TRUE],
           [NoFilter EXCEPT !.family = S(Cat9k)] }

(* -------------------------------- state ------------------------------- *)

VARIABLES
  args,       \* the parsed command line
  images,     \* what list_images returned
  table,      \* the candidate rows, in filter order
  pc,         \* where main is
  exc,        \* the exception that ended the process, if any
  answer,     \* what input() gave confirm(), None while the prompt was not shown
  limit,      \* main's limit
  i,          \* 1-based position of the for loop in table[:limit]
  deleted,    \* main's deleted list
  failures,   \* main's failures list
  caller,     \* which call of get_task is running: "golden" | "delete" | "unit"
  timeout,    \* get_task's timeout
  elapsed,    \* get_task: time.time() - start, saturating above timeout
  polls,      \* get_task: status queries issued by the running call (counted
              \* up to timeout + 3, one more than the loop can issue)
  r,          \* get_task: the last response
  tr,         \* main's tr, the value get_task returned
  tried,      \* delete_image's tried
  pidx,       \* delete_image: position of the for loop in the path list
  res,        \* main's res, the value delete_image returned
  calls       \* the controller calls issued for the candidate being processed

vars ==
  << args, images, table, pc, exc, answer, limit, i, deleted, failures,
     caller, timeout, elapsed, polls, r, tr, tried, pidx, res, calls >>

cfgVars == << args, images, table, answer, limit >>
pollVars == << caller, timeout, elapsed, polls, r >>
delVars == << tried, pidx, res >>
outVars == << deleted, failures >>

ArgsSet ==
  [ dry_run : BOOLEAN, yes : BOOLEAN, limit : Limits, scope : Scopes, flt : Filters ]

Idle ==
  /\ images = <<>> /\ table = <<>> /\ exc = "none" /\ answer = None
  /\ limit = 0 /\ i = 0 /\ deleted = <<>> /\ failures = <<>>
  /\ caller = "none" /\ timeout = DefaultTimeout /\ elapsed = 0 /\ polls = 0
  /\ r = None /\ tr = None /\ tried = <<>> /\ pidx = 0 /\ res = None
  /\ calls = <<>>

\* main, after the command line is parsed and the session is authenticated
Init == args \in ArgsSet /\ pc = "start" /\ Idle

(* ------------------------------- main --------------------------------- *)

\* images = cc.list_images(**query); selected; table, for the inventories
\* Invs the controller may answer with
Fetch(Invs) ==
  /\ pc = "start"
  /\ \/ /\ pc' = "died"
        /\ UNCHANGED << images, table >>
     \/ \E inv \in Invs :
          /\ images' = inv
          /\ table' = rows(select(args.flt, inv))
          /\ pc' = "gate"
  /\ UNCHANGED << args, exc, answer, limit, i, calls, tr >>
  /\ UNCHANGED << pollVars, delVars, outVars >>

ListImages == Fetch(Inventories)

\* a dry run that --yes overrides
dry_run_unless_yes(a) == a.dry_run /\ ~a.yes

\* if args.dry_run: the test that ends the run before any mutation
dry_run_stops(a) == a.dry_run

\* if args.dry_run: ... return
DryRun ==
  /\ pc = "gate" /\ dry_run_stops(args)
  /\ pc' = "done_dry"
  /\ UNCHANGED << exc, i, calls, tr, cfgVars, pollVars, delVars, outVars >>

\* if not table: ... return
NothingToDelete ==
  /\ pc = "gate" /\ ~dry_run_stops(args) /\ table = <<>>
  /\ pc' = "done_empty"
  /\ UNCHANGED << exc, i, calls, tr, cfgVars, pollVars, delVars, outVars >>

\* deleted, failures = [], []; limit = ...; the for loop starts
EnterLoop ==
  /\ deleted' = <<>> /\ failures' = <<>>
  /\ limit' = effective_limit(args.limit, Len(table))
  /\ i' = 1
  /\ pc' = "loop"

\* if not args.yes and not confirm(...): the prompt is answered
Confirm ==
  /\ pc = "gate" /\ ~dry_run_stops(args) /\ table # <<>> /\ ~args.yes
  /\ \E ans \in Answers :
       /\ answer' = ans
       /\ IF confirm(ans)
            THEN EnterLoop
            ELSE pc' = "aborted" /\ UNCHANGED << limit, i, deleted, failures >>
  /\ UNCHANGED << args, images, table, exc, calls, tr, pollVars, delVars >>

\* args.yes: no prompt
ProceedYes ==
  /\ pc = "gate" /\ ~dry_run_stops(args) /\ table # <<>> /\ args.yes
  /\ EnterLoop
  /\ UNCHANGED << args, images, table, answer, exc, calls, tr, pollVars, delVars >>

\* the slice taken back to front
Slice_reversed ==
  LET n == Min(limit, Len(table)) IN [k \in 1..n |-> table[n + 1 - k]]

\* table[:limit]
Slice == SubSeq(table, 1, Min(limit, Len(table)))

\* the golden-tag scope taken as given once the site is
ScopeGiven_site_only == Truthy(args.scope.site_id)

\* args.site_id and args.device_family_identifier and args.device_role
ScopeGiven ==
  /\ Truthy(args.scope.site_id)
  /\ Truthy(args.scope.device_family_identifier)
  /\ Truthy(args.scope.device_role)

\* get_task's frame is gone once main has taken its return value
PopGetTask ==
  caller' = "none" /\ timeout' = DefaultTimeout /\ elapsed' = 0 /\ polls' = 0 /\ r' = None

\* delete_image's frame is gone once main has taken its return value
PopDeleteImage == tried' = <<>> /\ pidx' = 0

\* a new pass of the loop body: nothing is issued yet for this candidate
FreshItem == calls' = <<>>

\* the head of `for r in table[:limit]` up to the first controller call
NextItem ==
  /\ pc = "loop" /\ i <= Len(Slice)
  /\ FreshItem
  /\ LET row == Slice[i]
     IN IF ~Truthy(row.imageUuid)
          THEN /\ failures' = Append(failures, [row |-> row, error |-> Msg("missing imageUuid")])
               /\ i' = i + 1
               /\ pc' = "loop"
               /\ UNCHANGED << deleted, pidx >>
          ELSE /\ IF row.golden /\ ScopeGiven
                    THEN pc' = "remove_golden" /\ UNCHANGED pidx
                    ELSE pc' = "delete" /\ pidx' = 1
               /\ UNCHANGED << i, deleted, failures >>
  /\ UNCHANGED << exc, tr, res, tried, cfgVars, pollVars >>

\* the loop is exhausted: result = {"deleted": deleted, "failed": failures}
Report ==
  /\ pc = "loop" /\ i > Len(Slice)
  /\ pc' = "done"
  /\ UNCHANGED << exc, i, calls, tr, cfgVars, pollVars, delVars, outVars >>

\* get_task(task_id, timeout=tmo) is entered from site c: start = time.time()
EnterGetTask(c, tmo) ==
  /\ pc' = "poll" /\ caller' = c
  /\ timeout' = tmo /\ elapsed' = 0 /\ polls' = 0 /\ r' = None

\* an uncaught exception unwinds main
Crash(e) == pc' = "crashed" /\ exc' = e

\* the status a call was answered with, 0 when no response came back
StatusOf(rsp) == IF rsp.conn THEN rsp.status ELSE 0

\* task_id = cc.remove_golden(...); if task_id: ...
RemoveGolden ==
  /\ pc = "remove_golden"
  /\ \E rsp \in WriteResps :
       LET out == remove_golden(rsp)
           call == [op |-> "remove_golden", status |-> StatusOf(rsp)]
       IN IF out.k = "raise"
            THEN /\ Crash(out.exc)
                 /\ calls' = Append(calls, call)
                 /\ UNCHANGED << pollVars, pidx >>
          ELSE IF Truthy(out.val)
            THEN /\ EnterGetTask("golden", DefaultTimeout)
                 /\ calls' = calls \o << call, [op |-> "get_task"] >>
                 /\ UNCHANGED << exc, pidx >>
          ELSE /\ pc' = "delete" /\ pidx' = 1
               /\ calls' = Append(calls, call)
               /\ UNCHANGED << exc, pollVars >>
  /\ UNCHANGED << i, tr, tried, res, cfgVars, outVars >>

\* one pass of get_task's loop: the query, its classification, the clock
Poll(Resps) ==
  /\ pc = "poll"
  /\ \E rsp \in Resps, d \in 0..MaxLatency :
       LET now == Min(elapsed + d, timeout + 1)
           out == get_task_iter(rsp, now, timeout)
       IN /\ r' = rsp
          /\ polls' = Min(polls + 1, timeout + 3)
          /\ CASE out.k = "raise" ->
                    Crash(out.exc) /\ elapsed' = now /\ UNCHANGED tr
               [] out.k = "return" ->
                    /\ tr' = out.val
                    /\ elapsed' = now
                    /\ pc' = CASE caller = "golden" -> "golden_ret"
                               [] caller = "delete" -> "task_ret"
                               [] OTHER -> "returned"
                    /\ UNCHANGED exc
               [] OTHER ->
                    /\ elapsed' = Min(now + 1, timeout + 1)
                    /\ UNCHANGED << pc, exc, tr >>
  /\ UNCHANGED << i, calls, caller, timeout, cfgVars, delVars, outVars >>

\* the same without the `continue`: the failure is recorded and the delete
\* is tried all the same
AfterGoldenTask_no_continue ==
  /\ pc = "golden_ret"
  /\ IF "error" \in DOMAIN tr
       THEN failures' = Append(failures,
              [row |-> Slice[i],
               error |-> [t |-> "msg", v |-> "remove_golden failed: ", detail |-> tr.error]])
       ELSE UNCHANGED failures
  /\ pc' = "delete" /\ pidx' = 1
  /\ PopGetTask /\ tr' = None
  /\ UNCHANGED << exc, i, deleted, calls, tried, res, cfgVars >>

\* tr = cc.get_task(task_id) of the golden-tag removal has returned
AfterGoldenTask ==
  /\ pc = "golden_ret"
  /\ IF "error" \in DOMAIN tr
       THEN /\ failures' = Append(failures,
                 [row |-> Slice[i],
                  error |-> [t |-> "msg", v |-> "remove_golden failed: ", detail |-> tr.error]])
            /\ i' = i + 1
            /\ pc' = "loop"
            /\ UNCHANGED pidx
       ELSE /\ pc' = "delete" /\ pidx' = 1
            /\ UNCHANGED << i, failures >>
  /\ PopGetTask /\ tr' = None
  /\ UNCHANGED << exc, deleted, calls, tried, res, cfgVars >>

\* one DELETE of delete_image
DeleteCall ==
  /\ pc = "delete"
  /\ \E rsp \in WriteResps :
       LET out == delete_image_iter(rsp, pidx, tried)
       IN /\ calls' = Append(calls, [op |-> "delete", path |-> Paths[pidx]])
          /\ tried' = out.tried
          /\ CASE out.k = "raise" -> Crash(out.exc) /\ UNCHANGED << pidx, res >>
               [] out.k = "next" -> pidx' = pidx + 1 /\ UNCHANGED << pc, exc, res >>
               [] OTHER -> res' = out.val /\ pc' = "delete_ret" /\ UNCHANGED << pidx, exc >>
  /\ UNCHANGED << i, tr, cfgVars, pollVars, outVars >>

\* res = cc.delete_image(img_id) has returned
AfterDelete ==
  /\ pc = "delete_ret"
  /\ IF res.ok
       THEN IF Truthy(res.taskId)
              THEN /\ EnterGetTask("delete", DefaultTimeout)
                   /\ calls' = Append(calls, [op |-> "get_task"])
                   /\ UNCHANGED << i, deleted, failures >>
              ELSE /\ deleted' = Append(deleted, Slice[i])
                   /\ i' = i + 1
                   /\ pc' = "loop"
                   /\ UNCHANGED << failures, calls, pollVars >>
       ELSE /\ failures' = Append(failures,
                 [row |-> Slice[i],
                  error |-> [t |-> "msg", v |-> "delete failed", tried |-> res.tried,
                             last_text |-> res.last_text]])
            /\ i' = i + 1
            /\ pc' = "loop"
            /\ UNCHANGED << deleted, calls, pollVars >>
  /\ PopDeleteImage /\ res' = None
  /\ UNCHANGED << exc, tr, cfgVars >>

\* the same with the result of the poll ignored
AfterDeleteTask_ignores_result ==
  /\ pc = "task_ret"
  /\ deleted' = Append(deleted, Slice[i])
  /\ UNCHANGED failures
  /\ i' = i + 1
  /\ pc' = "loop"
  /\ PopGetTask /\ tr' = None
  /\ UNCHANGED << exc, calls, cfgVars, delVars >>

\* tr = cc.get_task(task_id) of the delete has returned
AfterDeleteTask ==
  /\ pc = "task_ret"
  /\ IF "error" \in DOMAIN tr
       THEN /\ failures' = Append(failures,
                 [row |-> Slice[i],
                  error |-> [t |-> "msg", v |-> "task failed: ", detail |-> tr.error]])
            /\ UNCHANGED deleted
       ELSE /\ deleted' = Append(deleted, Slice[i])
            /\ UNCHANGED failures
  /\ i' = i + 1
  /\ pc' = "loop"
  /\ PopGetTask /\ tr' = None
  /\ UNCHANGED << exc, calls, cfgVars, delVars >>

\* the poller on its own: get_task(task_id, timeout=tmo) is called
CallGetTask ==
  /\ pc = "call"
  /\ \E tmo \in 0..DefaultTimeout : EnterGetTask("unit", tmo)
  /\ calls' = Append(calls, [op |-> "get_task"])
  /\ UNCHANGED << exc, i, tr, cfgVars, delVars, outVars >>

Next ==
  \/ ListImages \/ DryRun \/ NothingToDelete \/ Confirm \/ ProceedYes
  \/ NextItem \/ Report \/ RemoveGolden \/ Poll(TaskResps) \/ AfterGoldenTask
  \/ DeleteCall \/ AfterDelete \/ AfterDeleteTask

Spec == Init /\ [][Next]_vars

\* the filter step alone: one image of every kind against every filter
InitMatch ==
  /\ args \in [ dry_run : {TRUE}, yes : {FALSE}, limit : {0}, scope : {FullScope},
                flt : AllFilters ]
  /\ pc = "start" /\ Idle
NextMatch == Fetch(SingleRecords) \/ DryRun
SpecMatch == InitMatch /\ [][NextMatch]_vars

\* the poller against every kind of answer, for every timeout
InitPoll ==
  /\ args = [ dry_run |-> FALSE, yes |-> TRUE, limit |-> 0,
              scope |-> FullScope, flt |-> NoFilter ]
  /\ pc = "call" /\ Idle
NextPoll == CallGetTask \/ Poll(AllTaskResps)
SpecPoll == InitPoll /\ [][NextPoll]_vars
\* the poller runs in the only thread there is: a step that can be taken is taken
LivePoll == SpecPoll /\ WF_vars(NextPoll)

TypeOK ==
  /\ pc \in { "start", "died", "gate", "done_dry", "done_empty", "aborted", "loop",
              "remove_golden", "poll", "golden_ret", "delete", "delete_ret",
              "task_ret", "done", "crashed", "call", "returned" }
  /\ elapsed \in 0..(timeout + 1)

(* ====================================================================== *)
(*                              properties                                *)
(* ====================================================================== *)

\* get_task has returned to its caller
Returned == pc \in {"golden_ret", "task_ret", "returned"}

\* the last status query was answered 200 with a task object
LastParsed ==
  /\ r # None /\ r.conn /\ r.status = 200 /\ r.body.t = "obj"
  /\ Or(task_data(r.body), EmptyObj).t = "obj"
LastData == Or(task_data(r.body), EmptyObj)

\* the answer carries a failure reason or the error flag
SaysFailed(d) == Get(d, "failureReason") = Boom \/ Get(d, "isError") = B(TRUE)
\* the answer's progress text holds a completion keyword
SaysCompleted(d) ==
  Get(d, "progress") \in
    { Completed, S(<<"S","u","c","c","e","s","s">>), S(<<"n","o","t"," ","d","o","n","e">>),
      S(<<"I","m","a","g","e"," ","D","e","l","e","t","i","o","n">>) }

\* C2: a status answer that carries a failure reason or the error flag makes
\* get_task return an error on that very poll (it is never slept on) and never
\* a success, whatever the progress text says.
C2_FailureWinsOverProgress ==
  (LastParsed /\ SaysFailed(LastData)) =>
    (Returned /\ tr # None /\ "error" \in DOMAIN tr /\ "ok" \notin DOMAIN tr)

\* C2 happens: the first answer has failureReason and progress "COMPLETED"
C2_Witness ==
  /\ pc = "returned" /\ polls = 1 /\ LastParsed
  /\ Get(LastData, "failureReason") = Boom /\ SaysCompleted(LastData)
  /\ "error" \in DOMAIN tr /\ tr.error = Boom

\* the last status query was answered with a task object that neither
\* reports a failure nor a completion
LastPending ==
  LastParsed /\ ~SaysFailed(LastData) /\ ~SaysCompleted(LastData)
    /\ Get(LastData, "progress") \in {Null, S(<<>>), Running}
    /\ Get(LastData, "isError") \in {Null, B(FALSE)}
    /\ Get(LastData, "failureReason") \in {Null, S(<<>>)}

\* C3: the poller always terminates: a call of get_task that is polling
\* eventually stops polling; it issues at most timeout + 2 queries; and when
\* it returns on an answer that is still pending, it returns "task timeout"
\* with the elapsed time above the timeout.
C3_PollerTerminates ==
  /\ [](polls <= timeout + 2)
  /\ []((Returned /\ LastPending) =>
          ("error" \in DOMAIN tr /\ tr.error = Msg("task timeout") /\ elapsed > timeout))
  /\ ((pc = "poll") ~> (pc # "poll"))

\* C3 happens: every answer was pending and the call ended in a timeout
C3_Witness ==
  /\ pc = "returned" /\ polls >= 2 /\ LastPending
  /\ "error" \in DOMAIN tr /\ tr.error = Msg("task timeout")

\* C10: a status query answered with a status other than 200 ends get_task
\* at once with an error that records the status; the poller never goes on
\* polling after it.
C10_QueryFailureIsTerminal ==
  (r # None /\ r.conn /\ r.status # 200) =>
    /\ Returned
    /\ "error" \in DOMAIN tr /\ "ok" \notin DOMAIN tr
    /\ tr.error = [t |-> "msg", v |-> "task query failed", status |-> r.status]
    /\ tr.raw = r.body

\* C10 happens: the second query of a call is answered 500
C10_Witness ==
  /\ pc = "returned" /\ polls = 2 /\ r.conn /\ r.status = 500
  /\ "error" \in DOMAIN tr /\ tr.error.v = "task query failed"

Last(q) == q[Len(q)]
IsDelete(c) == c.op = "delete"
DeleteCalls == {k \in DOMAIN calls : IsDelete(calls[k])}
SuccessStatus == {200, 202, 204}
\* main has ended, by its last line or by an exception
RunOver == pc \in {"done", "crashed"}
\* how many candidates the claim says are acted upon
ClaimedCount ==
  IF args.limit > 0 THEN Min(Len(table), args.limit) ELSE Len(table)

\* C1: if the first k-1 delete paths answer with a non-success status and the
\* k-th with 200/202/204, exactly k delete calls are issued for the image,
\* no further path is called, and the k-th path is recorded in the result of
\* delete_image as the one that worked.
C1_FirstSuccessIsRecorded ==
  \A k \in 1..Len(tried) :
    (tried[k][2] \in SuccessStatus /\ \A j \in 1..(k - 1) : tried[j][2] \notin SuccessStatus)
      => /\ Len(tried) = k
         /\ Cardinality(DeleteCalls) = k
         /\ tried[k][1] = Paths[k]
         /\ res # None /\ res.ok /\ res.path = Paths[k]

\* C4: when the poll of a golden-tag removal task ends in an error (a failure
\* or a timeout), the candidate is golden with the three scope options given,
\* the next step of main records it as failed with a reason that starts with
\* "remove_golden failed" and moves to the next candidate, and no delete call
\* was issued for it.
C4_GoldenTaskFailureSkipsDelete ==
  /\ [](pc = "golden_ret" =>
          /\ Slice[i].golden /\ ScopeGiven
          /\ Len(calls) = 2 /\ calls[1].op = "remove_golden" /\ calls[2].op = "get_task")
  /\ [][ (pc = "golden_ret" /\ "error" \in DOMAIN tr) =>
           /\ pc' = "loop" /\ i' = i + 1
           /\ deleted' = deleted
           /\ Len(failures') = Len(failures) + 1
           /\ Last(failures').row = Slice[i]
           /\ Last(failures').error.v = "remove_golden failed: "
           /\ Last(failures').error.detail = tr.error
           /\ DeleteCalls = {} /\ calls' = calls ]_vars

\* C4 happens: a golden candidate whose tag-removal task timed out is the
\* last entry of the failed list, and tag removal and its poll are all that
\* was issued for it
C4_Witness ==
  /\ pc = "loop" /\ i > 1 /\ failures # <<>>
  /\ Last(failures).row = Slice[i - 1] /\ Last(failures).row.golden
  /\ Last(failures).error.v = "remove_golden failed: "
  /\ Last(failures).error.detail = Msg("task timeout")
  /\ Len(calls) = 2 /\ calls[1].op = "remove_golden" /\ calls[2].op = "get_task"

C6_DryRunIssuesNoCalls ==
  args.dry_run =>
    /\ calls = <<>> /\ polls = 0 /\ r = None /\ tried = <<>>
    /\ deleted = <<>> /\ failures = <<>>
    /\ pc \in {"start", "died", "gate", "done_dry"}

\* C6 happens: a dry run with --yes, a limit, the full scope and a golden
\* candidate has ended
C6_Witness ==
  /\ pc = "done_dry" /\ args.dry_run /\ args.yes /\ args.limit > 0 /\ ScopeGiven
  /\ \E k \in DOMAIN table : table[k].golden /\ Truthy(table[k].imageUuid)

\* the answers that mean yes
Affirmative == { S(<<"y">>), S(<<" ","Y","E","S"," ">>) }
\* main is in the deletion loop
InLoop ==
  pc \in {"loop", "remove_golden", "poll", "golden_ret", "delete", "delete_ret",
          "task_ret", "done", "crashed"}

\* C7: a tag-removal, delete or poll call is issued only after --yes was
\* given or the prompt was answered y / yes; without --yes, any other answer
\* and a closed input stream abort the run with no call issued.
C7_NoCallWithoutConsent ==
  /\ (calls # <<>> \/ polls > 0 \/ InLoop) => (args.yes \/ answer \in Affirmative)
  /\ (answer # None /\ answer \notin Affirmative) =>
       (~args.yes /\ pc = "aborted" /\ calls = <<>> /\ polls = 0 /\ r = None)
  /\ args.yes => answer = None

\* C7 happens: the input stream was closed at the prompt and the run aborted
C7_Witness ==
  /\ pc = "aborted" /\ ~args.yes /\ answer = EOF /\ table # <<>> /\ calls = <<>>

\* the failures the claim lists: a golden-tag removal task, all delete
\* paths, a delete task
ItemFailure(f) == f.error.v \in {"remove_golden failed: ", "delete failed", "task failed: "}

\* C8: once an image has failed (golden-tag removal task, all delete paths, or
\* the delete task), the run still gives every candidate within the limit its
\* own outcome, in deleted or in failed, before it is over.
C8_FailureDoesNotStopRun ==
  (RunOver /\ \E k \in DOMAIN failures : ItemFailure(failures[k])) =>
    Len(deleted) + Len(failures) = Len(Slice)

\* C9: no tag-removal, delete or task-status call that fails (at connection
\* level, or with a success status and a body that is not the expected
\* object) leaves main as a raw exception: the run reaches its report.
C9_NoRawException == exc = "none" /\ pc # "crashed"

\* the filter step has run on an inventory of one image
Filtered == pc \in {"gate", "done_dry"} /\ Len(images) = 1

\* C11: a record without a non-empty id is never a candidate: every row of
\* the table the filter step produced carries an id, and no candidate is
\* reported as failed for having none.
C11_IdlessNeverCandidate ==
  /\ \A k \in DOMAIN table : Truthy(table[k].imageUuid)
  /\ \A k \in DOMAIN failures : failures[k].error # Msg("missing imageUuid")

\* the value under the first of the keys the record carries, Null when it
\* carries none of them
FirstPresent(img, keys) ==
  LET present == {k \in DOMAIN keys : keys[k] \in DOMAIN img.v}
  IN IF present = {} THEN Null
     ELSE img.v[keys[CHOOSE k \in present : \A j \in present : k <= j]]

\* C12: every canonical field takes the value of the first alias key the
\* record carries, also when that value is 0, false or the empty text: the
\* row of a candidate shows it, a usage of 0 passes --unused-only and a
\* golden flag of false passes --golden false.
C12_FirstPresentAliasWins ==
  Filtered =>
    LET img == images[1]
        used == FirstPresent(img, <<"usedDevicesCount", "usingDeviceCount", "deviceCount">>)
        gold == FirstPresent(img, <<"isTaggedGolden", "isGolden", "golden">>)
    IN /\ table # <<>> =>
            /\ table[1].imageUuid = FirstPresent(img, <<"imageUuid", "id", "imageId">>)
            /\ table[1].name = FirstPresent(img, <<"name", "imageName">>)
            /\ table[1].version = FirstPresent(img, <<"version", "softwareVersion">>)
            /\ table[1].family = FirstPresent(img, <<"family", "familyName">>)
            /\ table[1].type = FirstPresent(img, <<"imageType", "type">>)
            /\ table[1].golden = Truthy(gold)
            /\ used.t \in {"int", "null"} => table[1].usedCount = Or(used, N(0))
       /\ (args.flt = [NoFilter EXCEPT !.unused_only = TRUE] /\ used = N(0)) => table # <<>>
       /\ (args.flt = [NoFilter EXCEPT !.golden = B(FALSE)] /\ gold = B(FALSE)) => table # <<>>

\* the instant a timestamp value denotes, in seconds from 1970-01-01T00:00:00
\* UTC: an epoch number, or ISO text read with its offset (UTC when it has
\* none), as N(seconds); None when the value denotes no instant
InstantOf(x) ==
  IF x.t = "int" THEN N(epoch_seconds(x))
  ELSE IF x.t # "str" THEN None
  ELSE LET d == fromisoformat(ReplaceZ(x.v))
       IN IF d = None THEN None
          ELSE IF d.off = None THEN N(d.wall) ELSE N(d.wall - d.off.v)

\* the filter is the age predicate alone, with a threshold of N >= 0 days
OnlyAge(flt) ==
  flt.older_than_days # Null /\ [flt EXCEPT !.older_than_days = Null] = NoFilter

\* the import time of a record that carries one under exactly one key
TimeOf(img) == img.v[CHOOSE k \in TimeKeys : k \in DOMAIN img.v]

\* C13: the age filter never excludes a record whose import time is absent
\* or not readable; a record it excludes has a readable import time that
\* lies less than N days before now.
C13_AgeFilterPermissive ==
  (Filtered /\ OnlyAge(args.flt) /\ Cardinality(TimeKeys \cap DOMAIN images[1].v) <= 1) =>
    (table = <<>> =>
       /\ TimeKeys \cap DOMAIN images[1].v # {}
       /\ InstantOf(TimeOf(images[1])) # None
       /\ Now - InstantOf(TimeOf(images[1])).v < args.flt.older_than_days.v * 86400)

CurItem == IF pc \in {"loop", "done"} THEN i - 1 ELSE i
\* the tag removal of the candidate was answered with a status that is no
\* success code
Rejected ==
  /\ calls # <<>> /\ calls[1].op = "remove_golden"
  /\ calls[1].status \notin {0, 200, 202, 204}

\* C15: a golden-tag removal answered with a status that is no success code
\* is not fatal: the step that receives it goes on to the delete with nothing
\* added to the failed list and no poll started; the next call for the
\* candidate is a delete, and the candidate is never recorded as
\* "remove_golden failed".
C15_RejectedGoldenRemovalProceeds ==
  /\ [][ (pc = "remove_golden" /\ calls' # calls /\ calls'[1].status \notin {0, 200, 202, 204}) =>
           /\ pc' = "delete" /\ i' = i
           /\ failures' = failures /\ deleted' = deleted
           /\ polls' = 0 /\ caller' = "none" ]_vars
  /\ [](Rejected => (Len(calls) >= 2 => calls[2].op = "delete"))
  /\ [](Rejected /\ pc \in {"loop", "done"} => Len(calls) >= 2)
  /\ [][ (Rejected /\ failures' # failures) =>
           Last(failures').error.v # "remove_golden failed: " ]_vars

\* C15 happens: the tag removal was answered 409 and the candidate was
\* deleted by the delete call that followed
C15_Witness ==
  /\ pc = "loop" /\ i > 1 /\ Rejected /\ calls[1].status = 409
  /\ Len(calls) = 2 /\ calls[2].op = "delete"
  /\ deleted # <<>> /\ Last(deleted) = Slice[i - 1]

\* C16: a tag removal is issued for a candidate only if it is golden and
\* site, device family identifier and device role are all given; it is the
\* first call for the candidate and the only tag removal; while the task it
\* was acknowledged with is polled, no delete call is issued for the
\* candidate.
C16_TagRemovalFirstAndGuarded ==
  /\ \A k \in DOMAIN calls :
       calls[k].op = "remove_golden" =>
         /\ k = 1
         /\ table[CurItem].golden
         /\ Truthy(args.scope.site_id)
         /\ Truthy(args.scope.device_family_identifier)
         /\ Truthy(args.scope.device_role)
  /\ (pc \in {"poll", "golden_ret"} /\ caller = "golden") =>
       (DeleteCalls = {} /\ Len(calls) = 2 /\ calls[1].op = "remove_golden")
  /\ pc = "remove_golden" => calls = <<>>

\* C16 happens: tag removal, its poll, then the delete, in that order
C16_Witness ==
  /\ pc = "delete_ret" /\ Len(calls) = 3
  /\ calls[1].op = "remove_golden" /\ calls[2].op = "get_task" /\ calls[3].op = "delete"

\* the body the controller sends with a status that is no success code
BodyOf(st) == IF st = 409 THEN ErrBody ELSE NotFoundBody
\* every path was tried and none answered with a success code
Exhausted ==
  Len(tried) = Len(Paths) /\ \A k \in DOMAIN tried : tried[k][2] \notin SuccessStatus

\* C17: when every delete path answers with a status that is no success
\* code, delete_image reports a failure that holds one (path, status) pair
\* per path in the order tried and the body of the last answer; main records
\* the candidate as failed with them and starts no poll.
C17_ExhaustedPathsKeepAttempts ==
  /\ [](Exhausted => (pc = "delete_ret" /\ ~res.ok))
  /\ []((pc = "delete_ret" /\ ~res.ok) =>
          /\ Exhausted
          /\ \A k \in DOMAIN tried : tried[k][1] = Paths[k]
          /\ Cardinality(DeleteCalls) = Len(Paths)
          /\ res.tried = tried
          /\ res.last_text = BodyOf(Last(tried)[2]))
  /\ [][ (pc = "delete_ret" /\ ~res.ok) =>
           /\ failures' = Append(failures,
                [row |-> table[i],
                 error |-> [t |-> "msg", v |-> "delete failed", tried |-> tried,
                            last_text |-> BodyOf(Last(tried)[2])]])
           /\ deleted' = deleted
           /\ pc' = "loop" /\ i' = i + 1
           /\ calls' = calls /\ polls' = 0 ]_vars

\* C17 happens: the first path was answered 409 and the second 404, and the
\* failed list holds both attempts and the body of the 404
C17_Witness ==
  /\ pc = "loop" /\ failures # <<>>
  /\ Last(failures).error.v = "delete failed"
  /\ Last(failures).error.tried = << <<Paths[1], 409>>, <<Paths[2], 404>> >>
  /\ Last(failures).error.last_text = NotFoundBody
  /\ Last(calls).op = "delete"

\* C18: a candidate enters the deleted list only from a delete call that
\* answered with a success code, at once when there is no task id and
\* otherwise after the poll of the task returned ok; a poll that returned an
\* error puts it in the failed list as "task failed" and not in deleted.
C18_DeletedOnlyAfterSuccess ==
  /\ [][ deleted' # deleted =>
           /\ deleted' = Append(deleted, table[i])
           /\ failures' = failures
           /\ \/ /\ pc = "delete_ret" /\ res.ok /\ ~Truthy(res.taskId)
                 /\ Last(tried)[2] \in SuccessStatus
              \/ /\ pc = "task_ret" /\ "ok" \in DOMAIN tr /\ "error" \notin DOMAIN tr ]_vars
  /\ [][ (pc' = "poll" /\ caller' = "delete" /\ pc # "poll") =>
           /\ pc = "delete_ret" /\ res.ok /\ Truthy(res.taskId)
           /\ Last(tried)[2] \in SuccessStatus ]_vars
  /\ [][ (pc = "task_ret" /\ "error" \in DOMAIN tr) =>
           /\ deleted' = deleted
           /\ failures' = Append(failures,
                [row |-> table[i],
                 error |-> [t |-> "msg", v |-> "task failed: ", detail |-> tr.error]]) ]_vars

\* C18 happens: the poll of a delete task timed out and the candidate is in
\* the failed list, not in deleted
C18_Witness ==
  /\ pc = "loop" /\ i > 1 /\ failures # <<>>
  /\ Last(failures).row = table[i - 1]
  /\ Last(failures).error.v = "task failed: "
  /\ Last(failures).error.detail = Msg("task timeout")
  /\ \A k \in DOMAIN deleted : deleted[k] # table[i - 1]

\* main is inside the loop body, at work on candidate i
AtItem == pc \in {"remove_golden", "poll", "golden_ret", "delete", "delete_ret", "task_ret"}

\* C19: the candidates are processed one at a time in the order of the
\* table: while candidate i is at work the outcomes of the i - 1 before it
\* are all recorded; the loop moves on by one candidate at a time and only
\* with the outcome of candidate i added; no call is issued while a task is
\* being polled.
C19_OneItemAtATime ==
  /\ [](AtItem => (i \in 1..Len(table) /\ Len(deleted) + Len(failures) = i - 1))
  /\ [][ i' # i => (i' = i + 1 /\ Len(deleted') + Len(failures') = i) ]_vars
  /\ [][ deleted' # deleted => deleted' = Append(deleted, table[i]) ]_vars
  /\ [][ failures' # failures =>
           (Len(failures') = Len(failures) + 1 /\ Last(failures').row = table[i]) ]_vars
  /\ [][ Len(calls') > Len(calls) => pc # "poll" ]_vars
  /\ [](pc = "poll" => (caller \in {"golden", "delete"} /\ Last(calls).op = "get_task"))

\* C19 happens: the second candidate is being polled after the first, a
\* different image, got its outcome
C19_Witness ==
  /\ pc = "poll" /\ i = 2 /\ Len(deleted) + Len(failures) = 1
  /\ table[1] # table[2] /\ polls >= 1

\* C20: get_task classifies the answer before it reads the clock: it never
\* returns without a status query, also with a timeout of 0; an answer that
\* reports completion returns ok also when the elapsed time is above the
\* timeout; "task timeout" is returned only on an answer that is pending.
C20_ClassifiesBeforeClock ==
  /\ Returned => polls >= 1
  /\ (LastParsed /\ SaysCompleted(LastData) /\ ~SaysFailed(LastData)) =>
       (Returned /\ "ok" \in DOMAIN tr /\ "error" \notin DOMAIN tr)
  /\ (Returned /\ "error" \in DOMAIN tr /\ tr.error = Msg("task timeout")) =>
       (LastPending /\ elapsed > timeout)

\* C20 happens: with a timeout of 0 the first answer came after the timeout
\* and reported completion, and get_task returned ok
C20_Witness ==
  /\ pc = "returned" /\ timeout = 0 /\ polls = 1 /\ elapsed > timeout
  /\ LastParsed /\ SaysCompleted(LastData) /\ "ok" \in DOMAIN tr

====
